---- MODULE Spec2Model ----
(***************************************************************************)
(* Model of the message controller of whatsapp-bulk                        *)
(* (src/src/controllers/message.controller.ts) over the Prisma schema      *)
(* (src/unnamed/part_000): the three request handlers sendBatchMessages,   *)
(* getMessages and getMessageStatus, the storage they read and write, and  *)
(* the session runtime they hand a batch to.                               *)
(*                                                                         *)
(* A handler is an async function: the code between two awaits runs        *)
(* without interruption, so every action below is one such stretch, and    *)
(* the handlers of different requests interleave at the awaits.            *)
(***************************************************************************)
EXTENDS Integers, Sequences, FiniteSets, TLC

(***************************************************************************)
(* Bounds of the model                                                     *)
(***************************************************************************)
\* comma-separated fields of the "numbers" form field
MaxTokens == 2
\* largest page / limit query value tried by getMessages
MaxPage == 2

(***************************************************************************)
(* Program constants                                                       *)
(***************************************************************************)
\* multer limits.fileSize, in MiB
fileSize == 16
\* getMessages: parseInt(req.query.limit) || 10
DefaultLimit == 10
\* getMessages: parseInt(req.query.page) || 1
DefaultPage == 1

allowedMimes == {"image/jpeg", "image/png", "image/gif", "application/pdf"}

ClientStatus == {"INITIALIZING", "CONNECTED", "DISCONNECTED", "LOGOUT"}
MessageStatus == {"PENDING", "SENT", "FAILED"}

(***************************************************************************)
(* Inputs                                                                  *)
(***************************************************************************)
Users == {"u1", "u2"}
\* req.user is undefined
NoUser == "nouser"
ClientIds == {"c1", "c2"}
\* Client.userId: the user each session row belongs to
ClientUser == [c \in ClientIds |-> IF c = "c1" THEN "u1" ELSE "u2"]

Absent == "absent"
NoFile == [mimetype |-> Absent, size |-> 0]
Files == {NoFile} \cup [mimetype : {"image/png", "text/plain"}, size : {1, fileSize + 1}]

\* the fields of req.body.numbers between the commas
Tokens == {"", "a", "b"}
\* (split never yields an empty array: the empty sequence is an absent field)
NumbersInputs == UNION {[1..n -> Tokens] : n \in 0..MaxTokens}
\* req.body.content as a sequence of characters (absent is falsy like "")
ContentInputs == {<<>>, <<" ">>, <<" ", "h", " ">>}
MediaUrlInputs == {Absent, "", "http://x"}

\* the sendBatchMessages requests in flight at the same time
ReqIds == {1, 2}

VARIABLES
    clients,    \* Client table: id -> [userId, status]
    registry,   \* clientService: session ids with a live runtime handle
    messages,   \* Message table, in insertion order
    nextId,     \* next generated Message.id
    now,        \* storage clock behind @default(now())
    sreq,       \* sendBatchMessages requests
    listeners,  \* "progress" listeners attached to each runtime handle
    active,     \* batches running on each runtime handle
    forwarded,  \* log lines the last progress event of each handle produced
    gm,         \* the getMessages request
    gs          \* the last getMessageStatus request and its response

vars == <<clients, registry, messages, nextId, now, sreq, listeners, active,
          forwarded, gm, gs>>

(***************************************************************************)
(* Pure helpers                                                            *)
(***************************************************************************)
\* fileFilter: cb(null, true) iff the mime type is allowed
fileFilter(file) == file.mimetype \in allowedMimes

\* multer's upload(req, res, cb): the error handed to the callback
\* ("none": the file, if any, is in req.file)
upload(file) ==
    IF file = NoFile THEN "none"
    ELSE IF ~fileFilter(file) THEN "Error"
    ELSE IF file.size > fileSize THEN "MulterError"
    ELSE "none"

\* (req.body.numbers as string)?.split(",").filter(Boolean) || []
ParseNumbers(raw) ==
    IF raw = <<>> THEN <<>> ELSE SelectSeq(raw, LAMBDA t : t # "")

RECURSIVE TrimStart(_)
TrimStart(s) ==
    IF s # <<>> /\ Head(s) = " " THEN TrimStart(Tail(s)) ELSE s

RECURSIVE TrimEnd(_)
TrimEnd(s) ==
    IF s # <<>> /\ s[Len(s)] = " " THEN TrimEnd(SubSeq(s, 1, Len(s) - 1)) ELSE s

\* String(req.body.content || "").trim()
ParseContent(raw) ==
    IF raw = <<>> THEN <<>> ELSE TrimEnd(TrimStart(raw))

\* lines 61-68: req.file wins over req.body.mediaUrl; "" and undefined are falsy
SelectMedia(file, mediaUrl) ==
    IF file # NoFile THEN "buffer"
    ELSE IF mediaUrl # Absent /\ mediaUrl # "" THEN "url"
    ELSE "none"

\* prisma.client.findFirst({where: {userId}}): the ids of the rows that match
FindClient(userId) ==
    {c \in DOMAIN clients : clients[c].userId = userId}

\* clientService.getWhatsAppInstance(id)
getWhatsAppInstance(c) == IF c \in registry THEN c ELSE Absent

\* no media URL (cloudinaryUrl is undefined)
NoUrl == <<>>

\* the session as a request's handler found it
NotLooked == [looked |-> FALSE, exists |-> FALSE, connected |-> FALSE, handle |-> FALSE]

\* a sendBatchMessages request: the handler's position (pc) and locals, the
\* response (status, responses, messageIds, why), and the detached batch.
\* uploads and fetches count the calls of uploadToCloudinary and fetch;
\* mediaResult and seen record what the media resolution did and how the
\* session of the user was when the handler looked it up, or when it answered
\* without looking
IdleReq ==
    [pc |-> "idle", userId |-> NoUser, numbers |-> <<>>, content |-> <<>>,
     media |-> "none", clientId |-> Absent, cloudinaryUrl |-> NoUrl,
     records |-> <<>>, uploads |-> 0, fetches |-> 0, mediaResult |-> "",
     status |-> 0, responses |-> 0, messageIds |-> <<>>, why |-> "",
     seen |-> NotLooked, batch |-> "none", processed |-> 0, errorsLogged |-> 0]

\* res.status(code).json(...) followed by return: the handler ends and its
\* locals are dropped
Respond(q, code, why) ==
    [IdleReq EXCEPT !.pc = "done", !.userId = q.userId, !.status = code,
                    !.responses = q.responses + 1, !.why = why,
                    !.uploads = q.uploads, !.fetches = q.fetches,
                    !.mediaResult = q.mediaResult,
                    !.clientId = q.clientId, !.seen = q.seen]

\* a Message row that stands for "no row"
NoRow ==
    [id |-> 0, clientId |-> Absent, number |-> "", content |-> <<>>,
     status |-> "PENDING", mediaUrl |-> NoUrl, error |-> Absent, createdAt |-> 0]

IdleGm ==
    [pc |-> "idle", userId |-> NoUser, page |-> 0, limit |-> 0, filter |-> Absent,
     clientId |-> Absent, status |-> 0, messages |-> <<>>, total |-> 0,
     totalPages |-> 0]

NoStatusRequest ==
    [userId |-> NoUser, id |-> 0, status |-> 0, data |-> NoRow]

Init ==
    /\ clients = [c \in ClientIds |-> [userId |-> ClientUser[c], status |-> "INITIALIZING"]]
    /\ registry = {}
    /\ messages = <<>>
    /\ nextId = 1
    /\ now = 1
    /\ sreq = [r \in ReqIds |-> IdleReq]
    /\ listeners = [c \in ClientIds |-> 0]
    /\ active = [c \in ClientIds |-> {}]
    /\ forwarded = [c \in ClientIds |-> 0]
    /\ gm = IdleGm
    /\ gs = NoStatusRequest

(***************************************************************************)
(* Session lifecycle and storage outside the controller                    *)
(***************************************************************************)
\* the client service creates the runtime handle of a session
InitializeInstance(c) ==
    /\ c \in DOMAIN clients
    /\ c \notin registry
    /\ registry' = registry \cup {c}
    /\ UNCHANGED <<clients, messages, nextId, now, sreq, listeners, active, forwarded, gm, gs>>

\* the client service records a session's connection status
SetClientStatus(c, s) ==
    /\ c \in DOMAIN clients
    /\ clients[c].status # s
    /\ clients' = [clients EXCEPT ![c].status = s]
    /\ UNCHANGED <<registry, messages, nextId, now, sreq, listeners, active, forwarded, gm, gs>>

\* a Client row is deleted; Message.client is onDelete: Cascade
DeleteClient(c) ==
    /\ c \in DOMAIN clients
    /\ clients' = [d \in DOMAIN clients \ {c} |-> clients[d]]
    /\ messages' = SelectSeq(messages, LAMBDA m : m.clientId # c)
    /\ registry' = registry \ {c}
    /\ UNCHANGED <<nextId, now, sreq, listeners, active, forwarded, gm, gs>>

(***************************************************************************)
(* sendBatchMessages                                                       *)
(***************************************************************************)
\* the session of a user as the lookup of lines 82-96 finds it in this state
SessionSnapshot(userId) ==
    LET found == FindClient(userId)
    IN  [looked    |-> TRUE,
         exists    |-> found # {},
         connected |-> \E c \in found : clients[c].status = "CONNECTED",
         handle    |-> \E c \in found : getWhatsAppInstance(c) # Absent]

\* lines 36-80: the multipart upload, the authentication check, the parsing
\* of the form and its validation, up to the await of the session lookup
SB_Upload(r, userId, file, numbersRaw, contentRaw, mediaUrl) ==
    /\ sreq[r].pc = "idle"
    /\ LET q0 == [sreq[r] EXCEPT !.userId = userId,
                                 !.seen = IF userId = NoUser THEN NotLooked
                                          ELSE SessionSnapshot(userId)]
           numbers == ParseNumbers(numbersRaw)
           content == ParseContent(contentRaw)
           media == SelectMedia(file, mediaUrl)
       IN  sreq' = [sreq EXCEPT ![r] =
             IF upload(file) # "none" THEN Respond(q0, 500, "upload")
             ELSE IF userId = NoUser THEN Respond(q0, 401, "unauthorized")
             ELSE IF Len(numbers) = 0 \/ content = <<>> THEN Respond(q0, 400, "invalid")
             ELSE [q0 EXCEPT !.pc = "findClient", !.numbers = numbers,
                             !.content = content, !.media = media,
                             !.seen = NotLooked]]
    /\ UNCHANGED <<clients, registry, messages, nextId, now, listeners, active, forwarded, gm, gs>>

\* lines 82-104 when findFirst finds no row
SB_NoClient(r) ==
    /\ sreq[r].pc = "findClient"
    /\ FindClient(sreq[r].userId) = {}
    /\ sreq' = [sreq EXCEPT ![r] =
          Respond([@ EXCEPT !.seen = SessionSnapshot(sreq[r].userId)], 400, "notConnected")]
    /\ UNCHANGED <<clients, registry, messages, nextId, now, listeners, active, forwarded, gm, gs>>

\* lines 82-104 when findFirst returns the row c
SB_FindClient(r, c) ==
    /\ sreq[r].pc = "findClient"
    /\ c \in FindClient(sreq[r].userId)
    /\ LET q == [sreq[r] EXCEPT !.clientId = c,
                    !.seen = [looked |-> TRUE, exists |-> TRUE,
                              connected |-> clients[c].status = "CONNECTED",
                              handle |-> getWhatsAppInstance(c) # Absent]]
       IN  sreq' = [sreq EXCEPT ![r] =
             IF clients[c].status # "CONNECTED" THEN Respond(q, 400, "notConnected")
             ELSE IF getWhatsAppInstance(c) = Absent THEN Respond(q, 400, "notInitialized")
             ELSE [q EXCEPT !.pc = IF q.media # "none" THEN "media" ELSE "create"]]
    /\ UNCHANGED <<clients, registry, messages, nextId, now, listeners, active, forwarded, gm, gs>>

\* getOptimizedUrl(public_id): the delivery URL of an uploaded asset
getOptimizedUrl(publicId) == <<"cdn", publicId>>

MediaOutcomes == {"fetchThrows", "fetchNotOk", "uploadThrows", "ok"}

\* a fetch response that is not ok is taken for the media
OnMediaIgnoringFetchStatus(q, outcome, publicId) ==
    IF outcome \notin {"ok", "fetchNotOk"} THEN Respond(q, 400, "media")
    ELSE [q EXCEPT !.pc = "create", !.cloudinaryUrl = getOptimizedUrl(publicId)]

\* lines 108-127: the try block ends normally only when nothing threw, and
\* the fetch branch throws on a response that is not ok; the catch answers 400
OnMedia(q, outcome, publicId) ==
    IF outcome # "ok" THEN Respond(q, 400, "media")
    ELSE [q EXCEPT !.pc = "create", !.cloudinaryUrl = getOptimizedUrl(publicId)]

\* lines 106-128: the media is fetched (a URL) and uploaded to media storage;
\* mediaResult records what the fetch and the upload did
SB_Media(r, outcome) ==
    /\ sreq[r].pc = "media"
    /\ sreq[r].media = "buffer" => outcome \in {"uploadThrows", "ok"}
    /\ LET q == [sreq[r] EXCEPT
                   !.fetches = IF sreq[r].media = "url" THEN @ + 1 ELSE @,
                   !.uploads = IF outcome \in {"uploadThrows", "ok"} THEN @ + 1 ELSE @,
                   !.mediaResult = outcome]
       IN  sreq' = [sreq EXCEPT ![r] = OnMedia(q, outcome, r)]
    /\ UNCHANGED <<clients, registry, messages, nextId, now, listeners, active, forwarded, gm, gs>>

\* lines 130-137: the argument of messageRepository.createMessages
CreateArgs(q) ==
    [numbers |-> q.numbers, content |-> q.content, media |-> q.cloudinaryUrl]

\* messageRepository.createMessages(clientId, {numbers, content, media}): the
\* rows it inserts, one per number, in order; tie says whether the rows get one
\* timestamp or successive ones
createMessages(clientId, data, tie) ==
    [i \in 1..Len(data.numbers) |->
        [id |-> nextId + i - 1, clientId |-> clientId, number |-> data.numbers[i],
         content |-> data.content, status |-> "PENDING", mediaUrl |-> data.media,
         error |-> Absent, createdAt |-> IF tie THEN now ELSE now + i - 1]]

\* line 130: the insert commits and the handler holds the created rows
SB_Create(r, tie) ==
    /\ sreq[r].pc = "create"
    /\ sreq[r].clientId \in DOMAIN clients
    /\ LET rows == createMessages(sreq[r].clientId, CreateArgs(sreq[r]), tie)
       IN  /\ messages' = messages \o rows
           /\ nextId' = nextId + Len(rows)
           /\ now' = now + (IF tie THEN 1 ELSE Len(rows))
           /\ sreq' = [sreq EXCEPT ![r].pc = "dispatch",
                                   ![r].records = [i \in 1..Len(rows) |-> rows[i].id]]
    /\ UNCHANGED <<clients, registry, listeners, active, forwarded, gm, gs>>

\* line 130 when the session row is gone: the insert violates the foreign
\* key, createMessages rejects and the catch of line 156 answers 500
SB_CreateFails(r) ==
    /\ sreq[r].pc = "create"
    /\ sreq[r].clientId \notin DOMAIN clients
    /\ sreq' = [sreq EXCEPT ![r] = Respond(@, 500, "create")]
    /\ UNCHANGED <<clients, registry, messages, nextId, now, listeners, active, forwarded, gm, gs>>

\* the ids in the opposite order
ResponseIdsReversed(records) ==
    [i \in 1..Len(records) |-> records[Len(records) + 1 - i]]

\* line 154: messageRecords.map((m) => m.id)
ResponseIds(records) == records

\* lines 139-145: whatsappInstance.on("progress", ...)
AttachListener(n) == n + 1

\* lines 139-155: the listener is attached, processBatch is started and not
\* awaited, and the request is answered
SB_Dispatch(r) ==
    /\ sreq[r].pc = "dispatch"
    /\ LET c == sreq[r].clientId
       IN  /\ listeners' = [listeners EXCEPT ![c] = AttachListener(@)]
           /\ active' = [active EXCEPT ![c] = @ \cup {r}]
           /\ sreq' = [sreq EXCEPT ![r].pc = "done", ![r].batch = "running",
                                   ![r].status = 200, ![r].responses = @ + 1,
                                   ![r].messageIds = ResponseIds(sreq[r].records)]
    /\ UNCHANGED <<clients, registry, messages, nextId, now, forwarded, gm, gs>>

(***************************************************************************)
(* The session runtime: whatsappInstance.processBatch(records)             *)
(***************************************************************************)
\* the runtime finishes one record of a batch and emits a progress event,
\* which every attached listener logs
ProcessOne(r, outcome) ==
    /\ sreq[r].batch = "running"
    /\ sreq[r].processed < Len(sreq[r].records)
    /\ LET c == sreq[r].clientId
           id == sreq[r].records[sreq[r].processed + 1]
       IN  /\ messages' = [i \in 1..Len(messages) |->
                 IF messages[i].id = id THEN [messages[i] EXCEPT !.status = outcome]
                 ELSE messages[i]]
           /\ forwarded' = [forwarded EXCEPT ![c] = listeners[c]]
           /\ sreq' = [sreq EXCEPT ![r].processed = @ + 1]
    /\ UNCHANGED <<clients, registry, nextId, now, listeners, active, gm, gs>>

\* the promise of processBatch resolves
BatchComplete(r) ==
    /\ sreq[r].batch = "running"
    /\ sreq[r].processed = Len(sreq[r].records)
    /\ sreq' = [sreq EXCEPT ![r].batch = "done"]
    /\ active' = [active EXCEPT ![sreq[r].clientId] = @ \ {r}]
    /\ UNCHANGED <<clients, registry, messages, nextId, now, listeners, forwarded, gm, gs>>

\* the batch is awaited inside the try block: its failure reaches the catch of
\* line 156, which answers 500
OnBatchErrorAnswering500(q) ==
    [q EXCEPT !.batch = "failed", !.errorsLogged = @ + 1, !.status = 500,
              !.responses = @ + 1]

\* lines 147-149: the .catch handler of the detached promise
OnBatchError(q) == [q EXCEPT !.batch = "failed", !.errorsLogged = @ + 1]

\* the promise of processBatch rejects
BatchFail(r) ==
    /\ sreq[r].batch = "running"
    /\ sreq' = [sreq EXCEPT ![r] = OnBatchError(@)]
    /\ active' = [active EXCEPT ![sreq[r].clientId] = @ \ {r}]
    /\ UNCHANGED <<clients, registry, messages, nextId, now, listeners, forwarded, gm, gs>>

(***************************************************************************)
(* getMessages                                                             *)
(***************************************************************************)
\* a query parameter: absent (or not a number), or a decimal numeral
QueryInputs == {<<>>} \cup {<<n>> : n \in 0..MaxPage}
\* req.query.status: absent, empty, or a MessageStatus
FilterInputs == {Absent, ""} \cup MessageStatus

\* parseInt(raw) || dflt: NaN and 0 are falsy
ParseIntOr(raw, dflt) ==
    IF raw = <<>> THEN dflt ELSE IF raw[1] = 0 THEN dflt ELSE raw[1]

\* where: {clientId: client.id, ...(status && {status})}
MessageWhere(m, clientId, filter) ==
    /\ m.clientId = clientId
    /\ (filter \in {Absent, ""} \/ m.status = filter)

\* the skip of a page counted from 0
SkipPageTimesLimit(page, limit) == page * limit

\* skip: (page - 1) * limit
Skip(page, limit) == (page - 1) * limit

\* Math.ceil(total / limit)
TotalPages(total, limit) == (total + limit - 1) \div limit

Range(f) == {f[i] : i \in DOMAIN f}

\* orderBy: {createdAt: "desc"}: every order of the rows that is descending
\* in createdAt (rows of one timestamp come in an order the database picks)
RECURSIVE OrderByCreatedAtDesc(_)
OrderByCreatedAtDesc(rows) ==
    IF rows = {} THEN {<<>>}
    ELSE UNION {{<<m>> \o rest : rest \in OrderByCreatedAtDesc(rows \ {m})} :
                m \in {x \in rows : \A y \in rows : y.createdAt <= x.createdAt}}

\* skip / take of findMany
Page(ordered, skip, take) ==
    SubSeq(ordered, skip + 1, IF skip + take < Len(ordered) THEN skip + take ELSE Len(ordered))

\* lines 170-183: the authentication check and the parsing of the query
GM_Start(userId, pageRaw, limitRaw, filter) ==
    /\ gm.pc = "idle"
    /\ gm' = IF userId = NoUser
             THEN [IdleGm EXCEPT !.pc = "done", !.status = 401]
             ELSE [IdleGm EXCEPT !.pc = "findClient", !.userId = userId,
                                 !.page = ParseIntOr(pageRaw, DefaultPage),
                                 !.limit = ParseIntOr(limitRaw, DefaultLimit),
                                 !.filter = filter]
    /\ UNCHANGED <<clients, registry, messages, nextId, now, sreq, listeners, active, forwarded, gs>>

\* lines 181-191 when findFirst finds no row
GM_NoClient ==
    /\ gm.pc = "findClient"
    /\ FindClient(gm.userId) = {}
    /\ gm' = [IdleGm EXCEPT !.pc = "done", !.userId = gm.userId, !.status = 404]
    /\ UNCHANGED <<clients, registry, messages, nextId, now, sreq, listeners, active, forwarded, gs>>

\* lines 181-191 when findFirst returns the row c
GM_FindClient(c) ==
    /\ gm.pc = "findClient"
    /\ c \in FindClient(gm.userId)
    /\ gm' = [gm EXCEPT !.pc = "query", !.clientId = c]
    /\ UNCHANGED <<clients, registry, messages, nextId, now, sreq, listeners, active, forwarded, gs>>

\* lines 193-222: the transaction of findMany and count, and the response
GM_Query ==
    /\ gm.pc = "query"
    /\ LET rows == {m \in Range(messages) : MessageWhere(m, gm.clientId, gm.filter)}
           total == Cardinality(rows)
       IN  \E ordered \in OrderByCreatedAtDesc(rows) :
             gm' = [gm EXCEPT !.pc = "done", !.status = 200,
                       !.messages = Page(ordered, Skip(gm.page, gm.limit), gm.limit),
                       !.total = total,
                       !.totalPages = TotalPages(total, gm.limit)]
    /\ UNCHANGED <<clients, registry, messages, nextId, now, sreq, listeners, active, forwarded, gs>>

\* the response is sent; the next request can come
GM_Finish ==
    /\ gm.pc = "done"
    /\ gm' = IdleGm
    /\ UNCHANGED <<clients, registry, messages, nextId, now, sreq, listeners, active, forwarded, gs>>

(***************************************************************************)
(* getMessageStatus                                                        *)
(***************************************************************************)
\* the lookup by id alone
StatusWhereAnyUser(m, messageId, userId) ==
    m.id = messageId

\* where: {id: messageId, client: {userId}}
StatusWhere(m, messageId, userId) ==
    /\ m.id = messageId
    /\ m.clientId \in DOMAIN clients
    /\ clients[m.clientId].userId = userId

\* lines 237-265: the whole handler (its one await is the findFirst)
getMessageStatus(userId, messageId) ==
    /\ LET found == {m \in Range(messages) : StatusWhere(m, messageId, userId)}
       IN  \/ /\ userId = NoUser
              /\ gs' = [userId |-> userId, id |-> messageId, status |-> 401, data |-> NoRow]
           \/ /\ userId # NoUser
              /\ found = {}
              /\ gs' = [userId |-> userId, id |-> messageId, status |-> 404, data |-> NoRow]
           \/ /\ userId # NoUser
              /\ \E m \in found :
                    gs' = [userId |-> userId, id |-> messageId, status |-> 200, data |-> m]
    /\ UNCHANGED <<clients, registry, messages, nextId, now, sreq, listeners, active, forwarded, gm>>

(***************************************************************************)
(* Specifications                                                          *)
(***************************************************************************)
\* both sessions are connected and have their runtime handle
InitConnected ==
    /\ clients = [c \in ClientIds |-> [userId |-> ClientUser[c], status |-> "CONNECTED"]]
    /\ registry = ClientIds
    /\ messages = <<>>
    /\ nextId = 1
    /\ now = 1
    /\ sreq = [r \in ReqIds |-> IdleReq]
    /\ listeners = [c \in ClientIds |-> 0]
    /\ active = [c \in ClientIds |-> {}]
    /\ forwarded = [c \in ClientIds |-> 0]
    /\ gm = IdleGm
    /\ gs = NoStatusRequest

MessageIds == 1..(Cardinality(ReqIds) * MaxTokens)

\* the files upload rejects and those it lets through
RejectedFiles == {f \in Files : upload(f) # "none"}
AcceptedFiles == Files \ RejectedFiles

\* the recipient lists a, b, a, ... of the well-formed requests
RECURSIVE Alternating(_)
Alternating(n) ==
    IF n = 0 THEN <<>> ELSE Append(Alternating(n - 1), IF n % 2 = 1 THEN "a" ELSE "b")
ValidNumbers == {Alternating(n) : n \in 1..MaxTokens}
\* one recipient, or two
ShortNumbers == {Alternating(1), Alternating(2)}

\* the other sendBatchMessages requests: well-formed requests of user u1
OtherReqs == ReqIds \ {1}

\* Request 1 is any request at all (every user, file and form) and meets
\* every state of the session of u1; the other requests are well-formed
\* requests of u1 without media that run at the same time.
Next ==
    \/ InitializeInstance("c1")
    \/ \E s \in ClientStatus : SetClientStatus("c1", s)
    \/ DeleteClient("c1")
    \/ \E userId \in Users \cup {NoUser}, file \in RejectedFiles,
          numbersRaw \in {<<>>, <<"a">>}, contentRaw \in {<<>>, <<"h">>},
          mediaUrl \in {Absent, "http://x"} :
            SB_Upload(1, userId, file, numbersRaw, contentRaw, mediaUrl)
    \/ \E userId \in Users \cup {NoUser}, file \in AcceptedFiles,
          numbersRaw \in NumbersInputs, contentRaw \in ContentInputs,
          mediaUrl \in MediaUrlInputs :
            SB_Upload(1, userId, file, numbersRaw, contentRaw, mediaUrl)
    \/ \E r \in OtherReqs, numbersRaw \in ValidNumbers :
            SB_Upload(r, "u1", NoFile, numbersRaw, <<"h">>, Absent)
    \/ \E r \in ReqIds : SB_NoClient(r)
    \/ \E r \in ReqIds, c \in ClientIds : SB_FindClient(r, c)
    \/ \E outcome \in MediaOutcomes : SB_Media(1, outcome)
    \/ \E r \in ReqIds : SB_Create(r, FALSE)
    \/ \E r \in ReqIds : SB_CreateFails(r)
    \/ \E r \in ReqIds : SB_Dispatch(r)
    \/ \E r \in ReqIds : ProcessOne(r, "SENT")
    \/ \E r \in ReqIds : BatchComplete(r)
    \/ \E r \in ReqIds : BatchFail(r)

Spec == Init /\ [][Next]_vars

\* getMessages against concurrent batches of the same session and its deletion
NextQuery ==
    \/ \E userId \in Users \cup {NoUser}, pageRaw \in QueryInputs,
          limitRaw \in QueryInputs, filter \in FilterInputs :
            GM_Start(userId, pageRaw, limitRaw, filter)
    \/ GM_NoClient
    \/ \E c \in ClientIds : GM_FindClient(c)
    \/ GM_Query
    \/ GM_Finish
    \/ \E r \in ReqIds, numbersRaw \in ShortNumbers :
            SB_Upload(r, "u1", NoFile, numbersRaw, <<"h">>, Absent)
    \/ \E r \in ReqIds, c \in ClientIds : SB_FindClient(r, c)
    \/ \E r \in ReqIds, tie \in BOOLEAN : SB_Create(r, tie)
    \/ \E r \in ReqIds : SB_Dispatch(r)
    \/ \E r \in ReqIds : ProcessOne(r, "SENT")
    \/ \E r \in ReqIds : BatchComplete(r)
    \/ DeleteClient("c1")

SpecQuery == InitConnected /\ [][NextQuery]_vars

\* getMessageStatus of every user on every message id, against batches of
\* both users and the deletion of a session
NextStatus ==
    \/ \E userId \in Users \cup {NoUser}, messageId \in MessageIds :
            getMessageStatus(userId, messageId)
    \/ \E r \in ReqIds, userId \in Users, numbersRaw \in ValidNumbers :
            SB_Upload(r, userId, NoFile, numbersRaw, <<"h">>, Absent)
    \/ \E r \in ReqIds, c \in ClientIds : SB_FindClient(r, c)
    \/ \E r \in ReqIds : SB_Create(r, FALSE)
    \/ \E r \in ReqIds : SB_Dispatch(r)
    \/ \E r \in ReqIds : ProcessOne(r, "SENT")
    \/ \E r \in ReqIds : BatchComplete(r)
    \/ \E c \in ClientIds : DeleteClient(c)

SpecStatus == InitConnected /\ [][NextStatus]_vars

(***************************************************************************)
(* Properties                                                              *)
(***************************************************************************)
\* the rows of the Message table with one of the ids
RowsOf(table, ids) == {m \in Range(table) : m.id \in Range(ids)}

\* C1: an accepted sendBatchMessages request with recipients r[1..N] creates
\* exactly N new Message rows for the session of its user, row i for r[i], all
\* PENDING, with the trimmed content and the resolved media URL, and answers
\* 200 with messageIds[i] the id of the row created for r[i].
C1_OneRecordPerRecipient ==
    [][\A r \in ReqIds :
        LET q == sreq[r]
            q2 == sreq'[r]
            n == Len(q.numbers)
        IN  /\ q2.records # q.records =>
                /\ q.pc = "create" /\ q.records = <<>>
                /\ Len(messages') = Len(messages) + n
                /\ SubSeq(messages', 1, Len(messages)) = messages
                /\ Len(q2.records) = n
                /\ \A i \in 1..n :
                     LET m == messages'[Len(messages) + i]
                     IN  /\ m.id = q2.records[i]
                         /\ m.id \notin {x.id : x \in Range(messages)}
                         /\ \A j \in 1..n : j # i => messages'[Len(messages) + j].id # m.id
                         /\ m.number = q.numbers[i]
                         /\ m.clientId = q.clientId
                         /\ clients[m.clientId].userId = q.userId
                         /\ m.status = "PENDING"
                         /\ m.content = q.content
                         /\ m.mediaUrl = q.cloudinaryUrl
            /\ (q2.status = 200 /\ q.status # 200) =>
                /\ n > 0 /\ q.content # <<>>
                /\ q2.numbers = q.numbers
                /\ Len(q.records) = n
                /\ Len(q2.messageIds) = n
                /\ \A i \in 1..n : q2.messageIds[i] = q.records[i]
                /\ q.media # "none" <=> q.cloudinaryUrl # NoUrl
    ]_vars

\* C1 witness: a request for the recipients b, a with media was accepted
C1_Witness ==
    \E r \in ReqIds :
        /\ sreq[r].status = 200
        /\ sreq[r].numbers = <<"b", "a">>
        /\ sreq[r].cloudinaryUrl # NoUrl
        /\ Len(sreq[r].messageIds) = 2
        /\ Cardinality(RowsOf(messages, sreq[r].messageIds)) = 2

\* what the handler found, or would have found, of its user's session
SessionNotReady(q) ==
    /\ q.seen.looked
    /\ ~(q.seen.exists /\ q.seen.connected /\ q.seen.handle)

\* C2: when the session of the authenticated user does not exist, is not
\* CONNECTED or has no runtime handle, sendBatchMessages creates no record,
\* uploads no media, starts no batch and answers 400.
C2_SessionNotReadyAnswers400 ==
    \A r \in ReqIds :
        (sreq[r].userId \in Users /\ SessionNotReady(sreq[r])) =>
            /\ sreq[r].pc = "done"
            /\ sreq[r].status = 400
            /\ sreq[r].records = <<>>
            /\ sreq[r].uploads = 0
            /\ sreq[r].batch = "none"

\* C3: when the media resolution of a request fails (the fetch throws or is
\* not ok, or the upload throws) the request is answered 400, no record is
\* created for it and no batch is started for it.
C3_MediaFailureAnswers400 ==
    \A r \in ReqIds :
        sreq[r].mediaResult \in {"fetchThrows", "fetchNotOk", "uploadThrows"} =>
            /\ sreq[r].pc = "done"
            /\ sreq[r].status = 400
            /\ sreq[r].responses = 1
            /\ sreq[r].records = <<>>
            /\ sreq[r].batch = "none"
            /\ r \notin UNION {active[c] : c \in ClientIds}
            /\ (\A x \in ReqIds \ {r} : sreq[x].pc = "idle") => messages = <<>>

\* C3 witness: the remote fetch of a request answered not ok
C3_Witness ==
    \E r \in ReqIds :
        /\ sreq[r].mediaResult = "fetchNotOk"
        /\ sreq[r].fetches = 1
        /\ sreq[r].status = 400

\* C4: a request without authenticated user is answered 401 by all three
\* handlers, whatever else it holds, and does nothing else.
C4_UnauthenticatedAnswers401 ==
    /\ \A r \in ReqIds :
          (sreq[r].pc = "done" /\ sreq[r].userId = NoUser) =>
              /\ sreq[r].status = 401
              /\ sreq[r].records = <<>> /\ sreq[r].uploads = 0
              /\ sreq[r].batch = "none" /\ ~sreq[r].seen.looked
    /\ (gm.pc = "done" /\ gm.userId = NoUser) => gm.status = 401
    /\ (gs.status # 0 /\ gs.userId = NoUser) => gs.status = 401

\* C5: getMessageStatus of user B on a message of a session of another user A
\* answers 404 without the row; a 200 answer carries the row with the asked
\* id, and that row belongs to a session of the asking user.
C5_CrossUserIsolation ==
    [][gs' # gs =>
        LET owners == {clients[m.clientId].userId :
                          m \in {x \in Range(messages) : x.id = gs'.id}}
        IN  /\ (gs'.userId \in Users /\ owners # {} /\ gs'.userId \notin owners) =>
                  (gs'.status = 404 /\ gs'.data = NoRow)
            /\ gs'.status = 200 =>
                  /\ gs'.data \in Range(messages)
                  /\ gs'.data.id = gs'.id
                  /\ clients[gs'.data.clientId].userId = gs'.userId
    ]_vars

\* C5 witness: u2 asked for a message of u1's session and got 404
C5_Witness ==
    /\ gs.userId = "u2"
    /\ gs.status = 404
    /\ \E m \in Range(messages) : m.id = gs.id /\ m.clientId = "c1"

\* C6: the state of storage from which getMessages reads the page and the
\* total holds the session it looked up, and the total is the number of that
\* session's matching messages in that state.
C6_ConsistentSnapshot ==
    [][(gm.pc = "query" /\ gm'.pc = "done") =>
        /\ gm.clientId \in DOMAIN clients
        /\ gm'.total = Cardinality({m \in Range(messages) :
                                      MessageWhere(m, gm.clientId, gm.filter)})
    ]_vars

\* C7: once the records of a request are created it is answered 200, once,
\* with the ids of its records, whatever the state of its batch; a failure of
\* the batch is logged and leaves the response as it was.
C7_AcceptedWithoutWaiting ==
    \A r \in ReqIds :
        /\ (sreq[r].pc = "done" /\ sreq[r].records # <<>>) => sreq[r].batch # "none"
        /\ sreq[r].batch # "none" =>
              /\ sreq[r].status = 200
              /\ sreq[r].responses = 1
              /\ sreq[r].messageIds = sreq[r].records
              /\ Len(sreq[r].messageIds) = Len(sreq[r].numbers)
        /\ sreq[r].errorsLogged = (IF sreq[r].batch = "failed" THEN 1 ELSE 0)

\* C7 witness: a batch failed before its last record, after the 200 answer
C7_Witness ==
    \E r \in ReqIds :
        /\ sreq[r].batch = "failed"
        /\ sreq[r].processed < Len(sreq[r].records)
        /\ sreq[r].status = 200

\* C8: at most one batch runs on the runtime handle of a session.
C8_OneActiveBatchPerHandle ==
    \A c \in ClientIds : Cardinality(active[c]) <= 1

\* C9: getMessages returns the messages at the positions (page-1)*limit+1 to
\* min(page*limit, total) of the session's matching messages in descending
\* order of creation, with total their number and totalPages ceil(total/limit).
C9_Pagination ==
    [][(gm.pc = "query" /\ gm'.pc = "done") =>
        LET M == {m \in Range(messages) :
                     /\ m.clientId = gm.clientId
                     /\ gm.filter \in MessageStatus => m.status = gm.filter}
            n == Cardinality(M)
            first == (gm.page - 1) * gm.limit + 1
            last == IF gm.page * gm.limit < n THEN gm.page * gm.limit ELSE n
            res == gm'.messages
        IN  /\ gm.page >= 1 /\ gm.limit >= 1
            /\ gm'.status = 200
            /\ gm'.total = n
            /\ gm'.totalPages * gm.limit >= n
            /\ (gm'.totalPages - 1) * gm.limit < n
            /\ Len(res) = (IF last >= first THEN last - first + 1 ELSE 0)
            /\ \A j \in 1..Len(res) :
                 /\ res[j] \in M
                 /\ \A k \in 1..Len(res) : k # j => res[k] # res[j]
                 /\ Cardinality({m \in M : m.createdAt > res[j].createdAt}) <= first + j - 2
                 /\ Cardinality({m \in M : m.createdAt >= res[j].createdAt}) >= first + j - 1
    ]_vars

\* C9 witness: the second page of three messages, two to a page
C9_Witness ==
    /\ gm.pc = "done" /\ gm.status = 200
    /\ gm.page = 2 /\ gm.limit = 2
    /\ gm.total = 3 /\ gm.totalPages = 2
    /\ Len(gm.messages) = 1

\* C10: a progress event of a runtime handle is logged once: the handle never
\* has more than one progress listener.
C10_ProgressLoggedOnce ==
    \A c \in ClientIds : listeners[c] <= 1 /\ forwarded[c] <= 1

====
